---- MODULE Spec2Model ----
(***************************************************************************)
(* Model of src/src/index.ts: the entry point of the Azure DevOps MCP      *)
(* server.  The module-level initialisation, main(), the oninitialized     *)
(* handshake callback and the client factory returned by                   *)
(* getAzureDevOpsClient are modelled as a state machine.  One action is    *)
(* one run-to-completion step of the single-threaded event loop: the code  *)
(* between two awaits.                                                     *)
(*                                                                         *)
(* auth.js, org-tenants.js, useragent.js and shared/domains.js are not     *)
(* part of the source tree at hand; createAuthenticator, the token         *)
(* provider's outcomes, UserAgentComposer and DomainsManager are modelled  *)
(* from the specification's sections 4.1 to 4.3.                           *)
(***************************************************************************)
EXTENDS Naturals, Sequences, FiniteSets, TLC

\* ------------------------------------------------------------- bounds
\* Tool invocations that reach the client factory in one run.
MaxBuilds == 2

\* ------------------------------------------------------ value domains
Undefined == "undefined"
Null == "null"
Nullish(v) == v \in {Undefined, Null}

AuthenticationChoices == {"interactive", "azcli", "env", "envvar", "pat"}
PatTokenInputs == {Undefined, "", "abc123"}
TenantInputs == {Undefined, "tenant-op"}
ServerUrlInputs == {Undefined, "https://ado.example"}
\* Requested --domains lists: the wildcard, one name, a list with a duplicate,
\* and lists holding an unrecognized name (alone, beside a known name, beside
\* the wildcard, and the wildcard in another case).
DomainLists ==
    {<<"all">>, <<"repositories">>, <<"repositories", "builds", "repositories">>,
     <<"bogus">>, <<"repositories", "bogus">>, <<"all", "bogus">>, <<"All">>}

\* What the organization-keyed lookup can resolve to.
LookupValues == {Undefined, Null, "", "tenant-org"}
\* What the identity mechanism can hand out for the non-static strategies.
Tokens == {"tokA", "tokB"}
\* What a peer can report as its identity in the initialize request.
NoClientInfo == [name |-> Undefined, version |-> Undefined]
ClientInfos == {[name |-> "agent-x", version |-> "0.1"],
                [name |-> "agent-y", version |-> "2.0"]}

packageVersion == "1.2.3"

\* ---------------------------------------------------------- variables
VARIABLES
    argv,             \* the parsed command line (index.ts 28-74)
    orgUrl,           \* module constant orgUrl (77)
    enabledDomains,   \* module constant enabledDomains (80)
    mainPc,           \* where the process is: load, main, awaitTenant, serving, rejected, exited, crashed
    exitStatus,       \* <<>> while the process runs, <<code>> once it has exited
    fatalError,       \* the error main() rejected with, or that ended the module load
    lookupCount,      \* calls of getOrgTenant (121)
    lookupResult,     \* what getOrgTenant resolved to
    tenantId,         \* main's tenantId (121)
    authenticator,    \* main's authenticator (123)
    toolsRegistered,  \* configureAllTools has run (128)
    registeredWith,   \* the domain set handed to configureAllTools (128)
    connected,        \* server.connect has started the transport (131)
    onInitializedSet, \* server.server.oninitialized is assigned (118)
    clientVersion,    \* what server.server.getClientVersion() returns (119)
    handshakes,       \* firings of the oninitialized callback
    uaState,          \* the UserAgentComposer created at 117
    calls,            \* the invocations of the client factory, in order of arrival
    tokenRequests,    \* invocations of the token provider made by the factory (84)
    clientsBuilt      \* WebApi objects constructed by the factory (86)

vars == <<argv, orgUrl, enabledDomains, mainPc, exitStatus, fatalError,
          lookupCount, lookupResult, tenantId, authenticator, toolsRegistered,
          registeredWith, connected, onInitializedSet, clientVersion,
          handshakes, uaState, calls, tokenRequests, clientsBuilt>>

configVars == <<argv, orgUrl, enabledDomains>>
mainVars == <<mainPc, exitStatus, fatalError, lookupCount, lookupResult,
              tenantId, authenticator, toolsRegistered, registeredWith,
              connected, onInitializedSet>>

Range(s) == {s[i] : i \in DOMAIN s}

\* ------------------------------------------------ collaborators (spec)
\* shared/domains.js, specification 4.1: the fixed registry.
KnownDomains == {"repositories", "builds"}

\* specification 4.1: DomainsManager(requested).getEnabledDomains().
getEnabledDomains(requested) ==
    IF \E i \in DOMAIN requested : requested[i] \notin KnownDomains \cup {"all"}
    THEN [ok |-> FALSE, error |-> "UnknownDomain", value |-> {}]
    ELSE IF "all" \in Range(requested)
         THEN [ok |-> TRUE, error |-> Undefined, value |-> KnownDomains]
         ELSE [ok |-> TRUE, error |-> Undefined, value |-> Range(requested)]

NoAuthenticator == [strategy |-> "none", tenantId |-> Undefined, credential |-> Undefined]

\* auth.js, specification 4.2: createAuthenticator(type, tenantId, patToken).
createAuthenticator(strategy, tenant, patToken) ==
    IF strategy = "pat" /\ patToken \in {Undefined, ""}
    THEN [ok |-> FALSE, error |-> "MissingCredential", value |-> NoAuthenticator]
    ELSE [ok |-> TRUE, error |-> Undefined,
          value |-> [strategy |-> strategy, tenantId |-> tenant,
                     credential |-> IF strategy = "pat" THEN patToken ELSE Undefined]]

\* specification 4.2: the tokens an invocation of the provider may resolve to.
TokenResolutions(a) ==
    IF a.strategy = "pat" THEN {a.credential} ELSE Tokens

\* specification 4.2: the errors an invocation of the provider may reject with.
TokenRejections(a) ==
    CASE a.strategy \in {"interactive", "azcli"} -> {"AuthFailed"}
      [] a.strategy \in {"env", "envvar"} -> {"MissingCredential"}
      [] OTHER -> {}

NoComposer == [productVersion |-> Undefined, clientInfo |-> NoClientInfo]

\* useragent.js, specification 4.3: new UserAgentComposer(packageVersion).
NewUserAgentComposer(version) == [productVersion |-> version, clientInfo |-> NoClientInfo]

\* specification 4.3: appendMcpClientInfo overwrites the client-info field.
appendMcpClientInfo(s, info) == [s EXCEPT !.clientInfo = info]

\* specification 4.3: the userAgent getter.
userAgent(s) ==
    IF s.clientInfo = NoClientInfo
    THEN "AzureDevOps.MCP/" \o s.productVersion
    ELSE "AzureDevOps.MCP/" \o s.productVersion \o " ("
         \o s.clientInfo.name \o "/" \o s.clientInfo.version \o ")"

\* ------------------------------------------------------------ index.ts
\* 77: argv.serverUrl ?? "https://dev.azure.com/" + orgName
OrgUrlOf(a) ==
    IF Nullish(a.serverUrl) THEN "https://dev.azure.com/" \o a.organization
    ELSE a.serverUrl

\* A faulty variant of ResolveTenant: the operands of ?? swapped, so --tenant wins.
ResolveTenant_OperatorFirst(looked, supplied) ==
    IF Nullish(supplied) THEN looked ELSE supplied

\* 121: (await getOrgTenant(orgName)) ?? argv.tenant
ResolveTenant(looked, supplied) ==
    IF Nullish(looked) THEN supplied ELSE looked

NoHandler == [scheme |-> "none", token |-> Undefined]

\* A faulty variant of AuthHandlerFor: the strategy test dropped, every token a bearer token.
AuthHandlerFor_AlwaysBearer(strategy, accessToken) ==
    [scheme |-> "bearer", token |-> accessToken]

\* 85: the credential handler chosen for the token.
AuthHandlerFor(strategy, accessToken) ==
    IF strategy = "pat"
    THEN [scheme |-> "pat", token |-> accessToken]
    ELSE [scheme |-> "bearer", token |-> accessToken]

NoClient == [serverUrl |-> Undefined, authHandler |-> NoHandler,
             productName |-> Undefined, productVersion |-> Undefined,
             userAgent |-> Undefined]

\* 86-90: new WebApi(orgUrl, authHandler, undefined, {...})
WebApi(url, handler, ua) ==
    [serverUrl |-> url, authHandler |-> handler,
     productName |-> "AzureDevOps.MCP", productVersion |-> packageVersion,
     userAgent |-> ua]

\* A faulty variant of FatalExitCode: the fatal handler exits with the success status.
FatalExitCode_Success == 1 - 1

\* 136: process.exit(1)
FatalExitCode == 1

\* The state after the command line is parsed and before the module body runs.
Init ==
    /\ argv \in [organization : {"contoso"},
                 domains : DomainLists,
                 authentication : AuthenticationChoices,
                 tenant : TenantInputs,
                 serverUrl : ServerUrlInputs,
                 patToken : PatTokenInputs]
    /\ orgUrl = Undefined
    /\ enabledDomains = {}
    /\ mainPc = "load"
    /\ exitStatus = <<>>
    /\ fatalError = Undefined
    /\ lookupCount = 0
    /\ lookupResult = Undefined
    /\ tenantId = Undefined
    /\ authenticator = NoAuthenticator
    /\ toolsRegistered = FALSE
    /\ registeredWith = {}
    /\ connected = FALSE
    /\ onInitializedSet = FALSE
    /\ clientVersion = NoClientInfo
    /\ handshakes = 0
    /\ uaState = NoComposer
    /\ calls = <<>>
    /\ tokenRequests = 0
    /\ clientsBuilt = 0

\* A faulty variant of ModuleLoad: a failing domain resolution is caught and every known
\* domain enabled instead.
ModuleLoad_FallbackToAll ==
    /\ mainPc = "load"
    /\ orgUrl' = OrgUrlOf(argv)
    /\ LET r == getEnabledDomains(argv.domains) IN
         enabledDomains' = IF r.ok THEN r.value ELSE KnownDomains
    /\ mainPc' = "main"
    /\ UNCHANGED <<argv, exitStatus, fatalError, lookupCount, lookupResult,
                   tenantId, authenticator, toolsRegistered, registeredWith,
                   connected, onInitializedSet, clientVersion, handshakes,
                   uaState, calls, tokenRequests, clientsBuilt>>

\* 76-80: the module body. A throwing DomainsManager ends the process with an
\* uncaught exception before main() is called.
ModuleLoad ==
    /\ mainPc = "load"
    /\ orgUrl' = OrgUrlOf(argv)
    /\ LET r == getEnabledDomains(argv.domains) IN
         IF r.ok
         THEN /\ enabledDomains' = r.value
              /\ mainPc' = "main"
              /\ UNCHANGED <<exitStatus, fatalError>>
         ELSE /\ mainPc' = "crashed"
              /\ exitStatus' = <<1>>
              /\ fatalError' = r.error
              /\ UNCHANGED enabledDomains
    /\ UNCHANGED <<argv, lookupCount, lookupResult, tenantId, authenticator,
                   toolsRegistered, registeredWith, connected, onInitializedSet,
                   clientVersion, handshakes, uaState, calls, tokenRequests,
                   clientsBuilt>>

\* 95-121: main() up to its first await.
MainStart ==
    /\ mainPc = "main"
    /\ uaState' = NewUserAgentComposer(packageVersion)
    /\ onInitializedSet' = TRUE
    /\ lookupCount' = lookupCount + 1
    /\ mainPc' = "awaitTenant"
    /\ UNCHANGED <<configVars, exitStatus, fatalError, lookupResult, tenantId,
                   authenticator, toolsRegistered, registeredWith, connected,
                   clientVersion, handshakes, calls, tokenRequests, clientsBuilt>>

\* 121-131: getOrgTenant resolved; main() runs on to server.connect.
TenantLookupResolves ==
    /\ mainPc = "awaitTenant"
    /\ \E looked \in LookupValues :
         LET t == ResolveTenant(looked, argv.tenant)
             a == createAuthenticator(argv.authentication, t, argv.patToken)
         IN /\ lookupResult' = looked
            /\ tenantId' = t
            /\ IF a.ok
               THEN /\ authenticator' = a.value
                    /\ toolsRegistered' = TRUE
                    /\ registeredWith' = enabledDomains
                    /\ connected' = TRUE
                    /\ mainPc' = "serving"
                    /\ UNCHANGED fatalError
               ELSE /\ mainPc' = "rejected"
                    /\ fatalError' = a.error
                    /\ UNCHANGED <<authenticator, toolsRegistered, registeredWith,
                                   connected>>
    /\ UNCHANGED <<configVars, exitStatus, lookupCount, onInitializedSet,
                   clientVersion, handshakes, uaState, calls, tokenRequests,
                   clientsBuilt>>

\* 121: getOrgTenant rejected; main() rejects with its error.
TenantLookupRejects ==
    /\ mainPc = "awaitTenant"
    /\ mainPc' = "rejected"
    /\ fatalError' = "TenantLookupFailed"
    /\ UNCHANGED <<configVars, exitStatus, lookupCount, lookupResult, tenantId,
                   authenticator, toolsRegistered, registeredWith, connected,
                   onInitializedSet, clientVersion, handshakes, uaState, calls,
                   tokenRequests, clientsBuilt>>

\* 134-137: main().catch logs and exits.
MainCatch ==
    /\ mainPc = "rejected"
    /\ mainPc' = "exited"
    /\ exitStatus' = <<FatalExitCode>>
    /\ UNCHANGED <<configVars, fatalError, lookupCount, lookupResult, tenantId,
                   authenticator, toolsRegistered, registeredWith, connected,
                   onInitializedSet, clientVersion, handshakes, uaState, calls,
                   tokenRequests, clientsBuilt>>

\* The initialize request: the SDK records the peer's identity, which
\* getClientVersion() (119) returns from then on.
McpInitialize ==
    /\ mainPc = "serving"
    /\ connected
    /\ clientVersion = NoClientInfo
    /\ \E info \in ClientInfos : clientVersion' = info
    /\ UNCHANGED <<configVars, mainVars, handshakes, uaState, calls, tokenRequests,
                   clientsBuilt>>

\* 118-120: the oninitialized callback, fired by the peer's initialized
\* notification, once per session after its initialize request.
OnInitialized ==
    /\ mainPc = "serving"
    /\ connected
    /\ onInitializedSet
    /\ clientVersion # NoClientInfo
    /\ handshakes = 0
    /\ uaState' = appendMcpClientInfo(uaState, clientVersion)
    /\ handshakes' = handshakes + 1
    /\ UNCHANGED <<configVars, mainVars, clientVersion, calls, tokenRequests,
                   clientsBuilt>>

\* A factory invocation as it stands right after calling the token provider.
NewCall ==
    [pc |-> "awaiting", tok |-> "pending", token |-> Undefined,
     tokError |-> Undefined, requests |-> 1, error |-> Undefined,
     authHandler |-> NoHandler, client |-> NoClient,
     hsAtCall |-> handshakes, hsAtBuild |-> 0]

\* A faulty variant of BuildStart: the factory keeps the first token it obtained and
\* hands it to later invocations without asking the provider again.
BuildStart_CachedToken ==
    /\ mainPc = "serving"
    /\ connected
    /\ toolsRegistered
    /\ registeredWith # {}
    /\ Len(calls) < MaxBuilds
    /\ IF \E j \in DOMAIN calls : calls[j].tok = "resolved"
       THEN LET j == CHOOSE k \in DOMAIN calls : calls[k].tok = "resolved" IN
            /\ calls' = Append(calls, [NewCall EXCEPT !.tok = "resolved",
                                                      !.token = calls[j].token,
                                                      !.requests = 0])
            /\ UNCHANGED tokenRequests
       ELSE /\ calls' = Append(calls, NewCall)
            /\ tokenRequests' = tokenRequests + 1
    /\ UNCHANGED <<configVars, mainVars, clientVersion, handshakes, uaState,
                   clientsBuilt>>

\* 83-84: a tool handler calls the factory, which calls the token provider and
\* suspends. Nothing in index.ts makes this wait for the handshake.
BuildStart ==
    /\ mainPc = "serving"
    /\ connected
    /\ toolsRegistered
    /\ registeredWith # {}
    /\ Len(calls) < MaxBuilds
    /\ calls' = Append(calls, NewCall)
    /\ tokenRequests' = tokenRequests + 1
    /\ UNCHANGED <<configVars, mainVars, clientVersion, handshakes, uaState,
                   clientsBuilt>>

\* 84: the awaited token promise resolves.
TokenResolves(i) ==
    /\ i \in DOMAIN calls
    /\ calls[i].tok = "pending"
    /\ \E t \in TokenResolutions(authenticator) :
         calls' = [calls EXCEPT ![i].tok = "resolved", ![i].token = t]
    /\ UNCHANGED <<configVars, mainVars, clientVersion, handshakes, uaState,
                   tokenRequests, clientsBuilt>>

\* 84: the awaited token promise rejects.
TokenRejects(i) ==
    /\ i \in DOMAIN calls
    /\ calls[i].tok = "pending"
    /\ \E e \in TokenRejections(authenticator) :
         calls' = [calls EXCEPT ![i].tok = "rejected", ![i].tokError = e]
    /\ UNCHANGED <<configVars, mainVars, clientVersion, handshakes, uaState,
                   tokenRequests, clientsBuilt>>

\* A faulty variant of TokenSettled: the factory gives up on a token request that is
\* still pending (a timeout).
TokenSettled_OrTimedOut(c) == TRUE

\* 84: what lets the suspended factory invocation run on.
TokenSettled(c) == c.tok # "pending"

\* A faulty variant of BuildRejection: the provider's error wrapped in one of the factory's.
BuildRejection_Wrapped(e) == "ClientBuildFailed"

\* 84: a rejected await rethrows the provider's error out of the async function.
BuildRejection(e) == e

\* A faulty variant of UserAgentRead: the string captured once, when the factory is created (128).
UserAgentRead_AtFactoryCreation(i) ==
    userAgent(NewUserAgentComposer(packageVersion))

\* A faulty variant of UserAgentRead: the string captured when build() is called, before
\* the await (83).
UserAgentRead_AtCall(i) ==
    IF calls[i].hsAtCall = 0
    THEN userAgent(NewUserAgentComposer(packageVersion))
    ELSE userAgent(uaState)

\* 89: userAgentComposer.userAgent, read while invocation i constructs its client.
UserAgentRead(i) == userAgent(uaState)

\* 85-91 after a resolved token, or the rejection leaving the async function.
BuildSettle(i) ==
    /\ i \in DOMAIN calls
    /\ calls[i].pc = "awaiting"
    /\ TokenSettled(calls[i])
    /\ IF calls[i].tok = "resolved"
       THEN LET h == AuthHandlerFor(argv.authentication, calls[i].token) IN
            /\ calls' = [calls EXCEPT ![i].pc = "resolved",
                                      ![i].authHandler = h,
                                      ![i].client = WebApi(orgUrl, h, UserAgentRead(i)),
                                      ![i].hsAtBuild = handshakes]
            /\ clientsBuilt' = clientsBuilt + 1
       ELSE /\ calls' = [calls EXCEPT ![i].pc = "rejected",
                                      ![i].error = BuildRejection(calls[i].tokError)]
            /\ UNCHANGED clientsBuilt

\* A faulty variant of BuildContinue: constructing a client also writes to the composer.
BuildContinue_WritesComposer(i) ==
    /\ BuildSettle(i)
    /\ uaState' = appendMcpClientInfo(uaState, [name |-> "build", version |-> "0"])
    /\ UNCHANGED <<configVars, mainVars, clientVersion, handshakes, tokenRequests>>

\* 83-92: the continuation of the factory's async function.
BuildContinue(i) ==
    /\ BuildSettle(i)
    /\ UNCHANGED <<configVars, mainVars, clientVersion, handshakes, uaState,
                   tokenRequests>>

Next ==
    \/ ModuleLoad
    \/ MainStart
    \/ TenantLookupResolves
    \/ TenantLookupRejects
    \/ MainCatch
    \/ McpInitialize
    \/ OnInitialized
    \/ BuildStart
    \/ \E i \in 1..MaxBuilds : TokenResolves(i)
    \/ \E i \in 1..MaxBuilds : TokenRejects(i)
    \/ \E i \in 1..MaxBuilds : BuildContinue(i)

Spec == Init /\ [][Next]_vars

\* The event loop runs every continuation whose awaited promise has settled.
\* The runs the liveness property is checked on: the default --domains,
\* --server-url and --tenant, every strategy and every --pat-token.
FairInit ==
    /\ Init
    /\ argv.domains = <<"all">>
    /\ argv.serverUrl = Undefined
    /\ argv.tenant = Undefined

FairSpec == FairInit /\ [][Next]_vars /\ \A i \in 1..MaxBuilds : WF_vars(BuildContinue(i))

\* ---------------------------------------------------------------- claims
Resolved(i) == i \in DOMAIN calls /\ calls[i].pc = "resolved"
Rejected(i) == i \in DOMAIN calls /\ calls[i].pc = "rejected"
PreHandshakeUserAgent == "AzureDevOps.MCP/1.2.3"

\* C1: every client build() returns carries a PAT-style credential handler when
\* the configured strategy is pat and a bearer-style one for every other
\* strategy, built from the token of its own invocation; hence all clients of
\* one process carry the same scheme.
C1_SchemeFollowsStrategy ==
    \A i \in DOMAIN calls : Resolved(i) =>
        /\ calls[i].client.authHandler.scheme
             = (IF argv.authentication = "pat" THEN "pat" ELSE "bearer")
        /\ calls[i].client.authHandler.token = calls[i].token
        /\ \A j \in DOMAIN calls : Resolved(j) =>
             calls[j].client.authHandler.scheme = calls[i].client.authHandler.scheme

\* C1 witness: two successive builds under the pat strategy have both returned.
C1_Witness ==
    /\ argv.authentication = "pat"
    /\ Resolved(1) /\ Resolved(2)
    /\ calls[1].client.authHandler = [scheme |-> "pat", token |-> "abc123"]

\* C2: when the token provider's invocation rejects, build() rejects with that
\* same error, constructs neither a credential handler nor a client, returns no
\* client and asks the provider no second time.
C2_RejectionPropagatesUnchanged ==
    \A i \in DOMAIN calls : calls[i].tok = "rejected" =>
        /\ calls[i].pc # "resolved"
        /\ calls[i].authHandler = NoHandler
        /\ calls[i].client = NoClient
        /\ calls[i].requests = 1
        /\ Rejected(i) => calls[i].error = calls[i].tokError

\* C2 witness: a build has rejected with the provider's AuthFailed.
C2_Witness ==
    \E i \in DOMAIN calls :
        /\ calls[i].tok = "rejected" /\ calls[i].tokError = "AuthFailed"
        /\ Rejected(i) /\ calls[i].error = "AuthFailed"

\* C3 as claimed: in every execution the handshake write precedes every tool
\* invocation that reaches the factory, so no build() reads the user agent
\* before the write.
C3_HandshakeBeforeEveryBuild ==
    \A i \in DOMAIN calls :
        /\ calls[i].hsAtCall >= 1
        /\ Resolved(i) => calls[i].hsAtBuild >= 1

\* C3 as amended: the code does not order tool invocations after the handshake;
\* what holds is that every build() invoked after the handshake callback has
\* fired reads the user-agent state that the callback wrote.
C3_BuildAfterHandshakeReadsWrittenState ==
    \A i \in DOMAIN calls : (Resolved(i) /\ calls[i].hsAtCall >= 1) =>
        /\ uaState.clientInfo = clientVersion
        /\ clientVersion \in ClientInfos
        /\ calls[i].client.userAgent = userAgent(uaState)

\* C3 witness: a build invoked after the handshake has returned its client.
C3_Witness ==
    \E i \in DOMAIN calls :
        /\ Resolved(i) /\ calls[i].hsAtCall = 1
        /\ calls[i].client.userAgent = "AzureDevOps.MCP/1.2.3 (agent-y/2.0)"

\* C4: every build() invocation asks the token provider exactly once and
\* constructs its own client: after N invocations, returned or rejected or
\* pending, N token requests have been issued, one by each, each returned
\* client was constructed by its own invocation from its own token, and a
\* rejected request was not repeated.
C4_OneTokenRequestPerBuild ==
    /\ tokenRequests = Len(calls)
    /\ clientsBuilt = Cardinality({i \in DOMAIN calls : Resolved(i)})
    /\ \A i \in DOMAIN calls :
        /\ calls[i].requests = 1
        /\ Resolved(i) =>
             /\ calls[i].tok = "resolved"
             /\ calls[i].client.authHandler.token = calls[i].token

\* C4 witness: a rejected build followed by a returned one: two requests, one
\* client.
C4_Witness ==
    /\ Len(calls) = 2 /\ tokenRequests = 2
    /\ Rejected(1) /\ Resolved(2)
    /\ clientsBuilt = 1

\* C5: the user agent a returned client carries is the composer's value in the
\* step that constructs the client, after the token resolved; clients
\* constructed on different sides of the handshake write carry different
\* values, whenever their build() was called.
C5_UserAgentReadAtConstruction ==
    /\ [][\A i \in DOMAIN calls :
            (calls[i].pc = "awaiting" /\ calls'[i].pc = "resolved") =>
                /\ calls[i].tok = "resolved"
                /\ calls'[i].client.userAgent = userAgent(uaState)]_vars
    /\ [](\A i, j \in DOMAIN calls :
            (Resolved(i) /\ Resolved(j) /\ calls[i].hsAtBuild # calls[j].hsAtBuild) =>
                calls[i].client.userAgent # calls[j].client.userAgent)

\* C5 witness: a build called before the handshake whose token resolved after
\* it carries the post-handshake string, next to one constructed before it.
C5_Witness ==
    \E i, j \in DOMAIN calls :
        /\ Resolved(i) /\ calls[i].hsAtCall = 0 /\ calls[i].hsAtBuild = 1
        /\ calls[i].client.userAgent = "AzureDevOps.MCP/1.2.3 (agent-x/0.1)"
        /\ Resolved(j) /\ calls[j].hsAtBuild = 0
        /\ calls[j].client.userAgent = PreHandshakeUserAgent

MissingStaticCredential == argv.patToken \in {Undefined, ""}
LookupFailed == fatalError = "TenantLookupFailed"

\* C6: with the pat strategy and no static credential, no token request is ever
\* made, no tool is registered, the transport is never connected; creating the
\* authenticator fails with MissingCredential, main() rejects with it and the
\* process exits with status 1.
C6_PatWithoutCredentialAborts ==
    (argv.authentication = "pat" /\ MissingStaticCredential) =>
        /\ tokenRequests = 0 /\ calls = <<>>
        /\ ~toolsRegistered /\ ~connected
        /\ authenticator = NoAuthenticator
        /\ mainPc # "serving"
        /\ (mainPc \in {"rejected", "exited"} /\ ~LookupFailed) =>
             fatalError = "MissingCredential"
        /\ mainPc = "exited" => exitStatus = <<1>>

\* C6 witness: the process has exited with 1 on MissingCredential.
C6_Witness ==
    /\ argv.authentication = "pat" /\ argv.patToken = Undefined
    /\ mainPc = "exited" /\ exitStatus = <<1>>
    /\ fatalError = "MissingCredential"

HasUnknownDomain ==
    \E i \in DOMAIN argv.domains : argv.domains[i] \notin KnownDomains \cup {"all"}

\* C7: a requested domain list holding an unrecognized name yields no enabled
\* set at all, partial or fallback: resolution fails with UnknownDomain, main()
\* is never entered and no tool is registered.
C7_UnknownDomainYieldsNoSet ==
    HasUnknownDomain =>
        /\ enabledDomains = {} /\ registeredWith = {}
        /\ ~toolsRegistered /\ ~connected
        /\ mainPc \in {"load", "crashed"}
        /\ mainPc = "crashed" =>
             (fatalError = "UnknownDomain" /\ exitStatus # <<>>)

\* C7 witness: a list with a known and an unknown name has ended the process.
C7_Witness ==
    /\ argv.domains = <<"repositories", "bogus">>
    /\ mainPc = "crashed" /\ fatalError = "UnknownDomain"

\* C8: a step of build() changes neither the user-agent state, nor the enabled
\* domains, the organization URL or the strategy; and once the composer exists
\* its composed string changes only in a step of the handshake callback.
C8_BuildLeavesSharedStateUnchanged ==
    [][/\ (calls' # calls) =>
            UNCHANGED <<uaState, enabledDomains, registeredWith, orgUrl, argv,
                        authenticator>>
       /\ (uaState # NoComposer /\ userAgent(uaState') # userAgent(uaState)) =>
            OnInitialized]_vars

\* C8 witness: builds on both sides of a handshake step that changed the string.
C8_Witness ==
    /\ handshakes = 1 /\ userAgent(uaState) # PreHandshakeUserAgent
    /\ Resolved(1) /\ calls[1].hsAtBuild = 0
    /\ Len(calls) = 2 /\ calls[2].pc = "rejected" /\ calls[2].hsAtCall = 1

\* C9: a build() settles exactly when its token request has: it returns only
\* on a resolved token, rejects only on a rejected one, stays pending while
\* the request is pending, and, the event loop being fair to ready
\* continuations, settles once the request has settled.
C9_SettlesIffTokenSettles ==
    /\ [](\A i \in DOMAIN calls :
            /\ Resolved(i) => calls[i].tok = "resolved"
            /\ Rejected(i) => calls[i].tok = "rejected"
            /\ calls[i].tok = "pending" => calls[i].pc = "awaiting")
    /\ \A i \in 1..MaxBuilds :
         [](i \in DOMAIN calls /\ calls[i].tok # "pending"
              => <>(i \in DOMAIN calls /\ calls[i].pc # "awaiting"))

\* C9 witness: one build has returned while another still waits for a token
\* request that has not settled.
C9_Witness ==
    \E i, j \in DOMAIN calls :
        /\ Resolved(i)
        /\ calls[j].tok = "pending" /\ calls[j].pc = "awaiting"

TenantLookupDone ==
    \/ mainPc = "serving"
    \/ mainPc \in {"rejected", "exited"} /\ ~LookupFailed

\* C10: the tenant id is looked up once; the id handed to the authenticator
\* factory is the lookup's result when that is neither undefined nor null, and
\* the --tenant value otherwise; a rejected lookup ends startup with no
\* authenticator, no tools and no transport.
C10_TenantFromLookupElseOperator ==
    /\ lookupCount <= 1
    /\ TenantLookupDone =>
         /\ lookupCount = 1
         /\ tenantId = (IF lookupResult \in {Undefined, Null}
                        THEN argv.tenant ELSE lookupResult)
         /\ mainPc = "serving" => authenticator.tenantId = tenantId
    /\ LookupFailed =>
         /\ mainPc \in {"rejected", "exited"}
         /\ authenticator = NoAuthenticator
         /\ ~toolsRegistered /\ ~connected
         /\ mainPc = "exited" => exitStatus = <<1>>

\* C10 witness: a successful lookup has won over a supplied --tenant.
C10_Witness ==
    /\ mainPc = "serving"
    /\ argv.tenant = "tenant-op" /\ lookupResult = "tenant-org"
    /\ authenticator.tenantId = "tenant-org"
====
